---- MODULE Spec2Model ----
(***************************************************************************)
(* Model of the polling file watcher of watch.go: the Watcher with its     *)
(* watches map, the background goroutine started by start(), the methods   *)
(* Add, Remove and Close called from caller goroutines, a consumer that    *)
(* receives on the Events and Errors channels, and the filesystem that     *)
(* directoryMap observes.                                                  *)
(***************************************************************************)
EXTENDS Integers, Sequences, FiniteSets, TLC

\* ------------------------------------------------------------------ bounds

MaxTicks == 2      \* ticks the ticker delivers
MaxCalls == 2      \* method calls the callers make

\* ------------------------------------------------------------ Op (bit flags)

Create == 1
Write == 2
Remove == 4
Rename == 8
Chmod == 16

\* ------------------------------------------------------------ poll frequency

defaultPollFrequency == 250      \* milliseconds
Durations == {100, 500}          \* arguments a caller may pass to PollFrequency

\* --------------------------------------------------------------- filesystem

Roots == {"a", "b"}              \* paths a caller may watch
Paths == Roots \cup {""}         \* arguments a caller may pass
Threads == {"c1", "c2"}          \* caller goroutines

\* What the walk finds at an entry: nothing; its metadata (modification time
\* and mode); or a name in its directory whose lstat fails, for which
\* filepath.Walk calls the walk function with a nil os.FileInfo and the error.
Absent == [present |-> FALSE, info |-> FALSE, modTime |-> 0, mode |-> 0]
Meta(t, m) == [present |-> TRUE, info |-> TRUE, modTime |-> t, mode |-> m]
Unreadable == [present |-> TRUE, info |-> FALSE, modTime |-> 0, mode |-> 0]
Exists(f, e) == f[e].present

\* filepath.Walk visits the root, then its entries in lexical order.
WalkOrder(root) ==
    IF root = "a" THEN <<"a", "a/f", "a/g">> ELSE <<"b", "b/b">>

Entries == {"a", "a/f", "a/g", "b", "b/b"}
EntriesOf(root) == {WalkOrder(root)[i] : i \in 1..Len(WalkOrder(root))}

\* What the filesystem may hold at an entry when directoryMap looks: the
\* roots keep their metadata; "a/f" comes and goes, is written and is
\* chmod-ed; "a/g" comes and goes and may be unreadable; "b/b", which has
\* the base name of its root, comes and goes.
StatesOf(e) ==
    CASE e \in Roots -> {Absent, Meta(0, 0)}
      [] e = "a/f" -> {Absent, Meta(0, 0), Meta(1, 0), Meta(1, 1)}
      [] e = "a/g" -> {Absent, Meta(0, 0), Unreadable}
      [] e = "b/b" -> {Absent, Meta(1, 1)}

\* The contents the tree under a root may have: nothing at all, or the root
\* with one of its entries.
Contents(root) ==
    {f \in [EntriesOf(root) -> UNION {StatesOf(e) : e \in Entries}] :
        /\ \A e \in EntriesOf(root) : f[e] \in StatesOf(e)
        /\ ~Exists(f, root) => \A e \in EntriesOf(root) : ~Exists(f, e)
        /\ Cardinality({e \in EntriesOf(root) : Exists(f, e)}) <= 2}

\* os.FileInfo.Name(): the base name of the entry.
Name(e) ==
    CASE e = "a" -> "a"
      [] e = "a/f" -> "f"
      [] e = "a/g" -> "g"
      [] e = "b" -> "b"
      [] e = "b/b" -> "b"

EmptyMap == [k \in {} |-> 0]     \* a nil or empty map[string]FileInfo

\* FileInfo{f, path}
FileInfo(e, meta) == [path |-> e, modTime |-> meta.modTime, mode |-> meta.mode]

\* m[k] = v on a Go map
MapPut(m, k, v) == [x \in (DOMAIN m) \cup {k} |-> IF x = k THEN v ELSE m[x]]

\* delete(m, k) on a Go map
MapDelete(m, k) == [x \in (DOMAIN m) \ {k} |-> m[x]]

\* The walk function of directoryMap applied to the entries from index i on:
\* m[f.Name()] = FileInfo{f, path} (line 58), which is a nil dereference and
\* panics when the walk passes a nil f.
RECURSIVE WalkFrom(_, _, _, _)
WalkFrom(f, order, i, m) ==
    IF i > Len(order) THEN [panic |-> FALSE, m |-> m]
    ELSE IF ~Exists(f, order[i]) THEN WalkFrom(f, order, i + 1, m)
    ELSE IF ~f[order[i]].info THEN [panic |-> TRUE, m |-> m]
    ELSE WalkFrom(f, order, i + 1,
                  MapPut(m, Name(order[i]), FileInfo(order[i], f[order[i]])))

\* directoryMap(path) on filesystem f: the error of os.Lstat, or the map, or
\* the panic of the walk function.
directoryMap(f, path) ==
    IF path \notin Roots \/ ~Exists(f, path)
    THEN [err |-> TRUE, panic |-> FALSE, m |-> EmptyMap]
    ELSE LET r == WalkFrom(f, WalkOrder(path), 1, EmptyMap)
         IN  [err |-> FALSE, panic |-> r.panic, m |-> r.m]


\* ------------------------------------------------------------------- events

\* Event{Name: path, Op: op}
Event(path, op) == [Name |-> path, Op |-> op]

\* Mutant of EventsForKey: the Create event carries the key, not v.path.
EventsForKeyNamed(old, new, k) ==
    IF k \notin DOMAIN old
    THEN <<Event(k, Create)>>
    ELSE (IF old[k].modTime # new[k].modTime
          THEN <<Event(new[k].path, Write)>> ELSE <<>>)
         \o
         (IF old[k].mode # new[k].mode
          THEN <<Event(new[k].path, Chmod)>> ELSE <<>>)

\* Mutant of EventsForKey: a change of both modification time and mode is
\* sent as one event with both flags.
EventsForKeyCombined(old, new, k) ==
    IF k \notin DOMAIN old
    THEN <<Event(new[k].path, Create)>>
    ELSE IF old[k].modTime # new[k].modTime /\ old[k].mode # new[k].mode
    THEN <<Event(new[k].path, Write + Chmod)>>
    ELSE IF old[k].modTime # new[k].modTime
    THEN <<Event(new[k].path, Write)>>
    ELSE IF old[k].mode # new[k].mode
    THEN <<Event(new[k].path, Chmod)>>
    ELSE <<>>

\* ------------------------------------------------------------ Event.String

\* Strings are sequences of characters; the path quoted by %q is one item.
StrCreate == <<"|", "C", "R", "E", "A", "T", "E">>       \* "|CREATE"
StrRemove == <<"|", "R", "E", "M", "O", "V", "E">>       \* "|REMOVE"
StrWrite == <<"|", "W", "R", "I", "T", "E">>             \* "|WRITE"
StrRename == <<"|", "R", "E", "N", "A", "M", "E">>       \* "|RENAME"
StrChmod == <<"|", "C", "H", "M", "O", "D">>             \* "|CHMOD"

\* fmt.Sprintf("%q", name)
Quoted(name) == <<[quoted |-> name]>>

\* op&flag == flag, for a flag that is one bit
HasFlag(op, flag) == (op \div flag) % 2 = 1

\* Mutant of String: the names come in the order of the bits.
StringInBitOrder(ev) ==
    LET e1 == IF HasFlag(ev.Op, Create) THEN StrCreate ELSE <<>>
        e2 == e1 \o (IF HasFlag(ev.Op, Write) THEN StrWrite ELSE <<>>)
        e3 == e2 \o (IF HasFlag(ev.Op, Remove) THEN StrRemove ELSE <<>>)
        e4 == e3 \o (IF HasFlag(ev.Op, Rename) THEN StrRename ELSE <<>>)
        e5 == e4 \o (IF HasFlag(ev.Op, Chmod) THEN StrChmod ELSE <<>>)
        events == IF Len(e5) > 0 THEN Tail(e5) ELSE e5
    IN  Quoted(ev.Name) \o <<":", " ">> \o events

\* Lines 129-153: Event.String.
String(ev) ==
    LET e1 == IF HasFlag(ev.Op, Create) THEN StrCreate ELSE <<>>
        e2 == e1 \o (IF HasFlag(ev.Op, Remove) THEN StrRemove ELSE <<>>)
        e3 == e2 \o (IF HasFlag(ev.Op, Write) THEN StrWrite ELSE <<>>)
        e4 == e3 \o (IF HasFlag(ev.Op, Rename) THEN StrRename ELSE <<>>)
        e5 == e4 \o (IF HasFlag(ev.Op, Chmod) THEN StrChmod ELSE <<>>)
        events == IF Len(e5) > 0 THEN Tail(e5) ELSE e5
    IN  Quoted(ev.Name) \o <<":", " ">> \o events

\* The events String may be called on: any path with any set of the flags.
EventNames == {"", "a", "a/f", "b/b"}
AllEvents == {Event(nm, op) : nm \in EventNames, op \in 0..(2 * Chmod - 1)}

\* ----------------------------------------------------------- derived events

\* Mutant of EventsForKey: a Write event is sent for every name that is in
\* both snapshots, changed or not.
EventsForKeyTouched(old, new, k) ==
    IF k \notin DOMAIN old
    THEN <<Event(new[k].path, Create)>>
    ELSE <<Event(new[k].path, Write)>>
         \o
         (IF old[k].mode # new[k].mode
          THEN <<Event(new[k].path, Chmod)>> ELSE <<>>)

\* Mutant of EventsForKey: the Remove event of a name that is gone is sent
\* in the first loop, ahead of the Create event of a new name.
EventsForKeyRemovalFirst(old, new, k) ==
    IF k \notin DOMAIN old
    THEN (IF (DOMAIN old) \ (DOMAIN new) # {}
          THEN LET g == CHOOSE x \in (DOMAIN old) \ (DOMAIN new) : TRUE
               IN  <<Event(old[g].path, Remove)>>
          ELSE <<>>)
         \o <<Event(new[k].path, Create)>>
    ELSE (IF old[k].modTime # new[k].modTime
          THEN <<Event(new[k].path, Write)>> ELSE <<>>)
         \o
         (IF old[k].mode # new[k].mode
          THEN <<Event(new[k].path, Chmod)>> ELSE <<>>)

\* Lines 167-181: the events sent for key k of the new snapshot, in order.
EventsForKey(old, new, k) ==
    IF k \notin DOMAIN old
    THEN <<Event(new[k].path, Create)>>
    ELSE (IF old[k].modTime # new[k].modTime
          THEN <<Event(new[k].path, Write)>> ELSE <<>>)
         \o
         (IF old[k].mode # new[k].mode
          THEN <<Event(new[k].path, Chmod)>> ELSE <<>>)

\* Mutant of EventsForOldKey: a name that went while another came is
\* reported with the Rename flag.
EventsForOldKeyRenamed(old, new, k) ==
    IF k \notin DOMAIN new
    THEN <<Event(old[k].path,
                 IF (DOMAIN new) \ (DOMAIN old) # {} THEN Rename ELSE Remove)>>
    ELSE <<>>

\* Lines 186-190: the events sent for key k of the old snapshot.
EventsForOldKey(old, new, k) ==
    IF k \notin DOMAIN new
    THEN <<Event(old[k].path, Remove)>>
    ELSE <<>>

\* Mutant of AfterSendErr: the error ends the tick.
AfterSendErrAbort == "wait"

\* Lines 162-166: after the error has been sent the loop body goes on.
AfterSendErr == "scanNew"

\* -------------------------------------------------------------------- state

VARIABLES
    watches,       \* w.watches: path -> watch{path, files}
    mutex,         \* w.watchesMutex: "free", "task" or the holding caller
    isRunning,     \* w.isRunning
    stops,         \* number of w.ticker.Stop() calls made
    tickBuffered,  \* a tick waits in w.ticker.C (capacity 1)
    eventsClosed,  \* close(w.Events) has happened
    errorsClosed,  \* close(w.Errors) has happened
    tpc,           \* where the goroutine of start() is
    iterSeen,      \* keys the range over w.watches has produced
    iterFresh,     \* keys created in w.watches since that range began
    curWatch,      \* the loop variable curWatch
    n,             \* the loop's new snapshot n
    err,           \* the loop's err # nil
    todo,          \* keys the current inner range has still to produce
    key,           \* the key the inner range is at
    outq,          \* events the goroutine has still to send for that key
    cpc,           \* where each caller goroutine is
    carg,          \* the path argument of its call
    cfiles,        \* the local files of Add
    cret,          \* what its last call returned
    fatal,         \* why the process died, or "none"
    emitted,       \* events received for the target being processed
    errRecv,       \* errors received for the target being processed
    tickPresent,   \* paths in w.watches since the tick began
    tickStored,    \* targets stored in this tick after a successful snapshot,
                   \* each with the number of its events
    tickFailed,    \* paths whose snapshot failed in this tick
    removedOK,     \* paths whose Remove returned nil with no insertion by Add since
    closeDone,     \* number of Close calls that returned
    pollFrequency, \* w.pollFrequency
    tickerPeriod,  \* the period w.ticker was armed with
    sev,           \* the Event whose String method is called
    str,           \* what String returned, or NoString
    nTicks, nCalls

taskVars == <<tpc, iterSeen, iterFresh, curWatch, n, err, todo, key, outq>>
callVars == <<cpc, carg, cfiles, cret>>
chanVars == <<isRunning, stops, eventsClosed, errorsClosed>>
ghostVars == <<emitted, errRecv, tickPresent, tickStored, tickFailed, removedOK, closeDone>>
confVars == <<pollFrequency, tickerPeriod>>
strVars == <<sev, str>>
vars == <<watches, mutex, tickBuffered, taskVars, callVars, chanVars, fatal,
          ghostVars, confVars, strVars, nTicks, nCalls>>

NoWatch == [path |-> "", files |-> EmptyMap]
NoKey == ""
NoEvent == Event("", 0)
NoString == <<>>

\* NewWatcher (lines 65-76) with start() (lines 154-157) has run.
NewWatcher ==
    /\ watches = EmptyMap
    /\ mutex = "free"
    /\ isRunning = TRUE
    /\ stops = 0
    /\ tickBuffered = FALSE
    /\ eventsClosed = FALSE
    /\ errorsClosed = FALSE
    /\ tpc = "wait"
    /\ iterSeen = {}
    /\ iterFresh = {}
    /\ curWatch = NoWatch
    /\ n = EmptyMap
    /\ err = FALSE
    /\ todo = {}
    /\ key = NoKey
    /\ outq = <<>>
    /\ cpc = [c \in Threads |-> "idle"]
    /\ carg = [c \in Threads |-> ""]
    /\ cfiles = [c \in Threads |-> EmptyMap]
    /\ cret = [c \in Threads |-> "none"]
    /\ fatal = "none"
    /\ emitted = <<>>
    /\ errRecv = 0
    /\ tickPresent = {}
    /\ tickStored = {}
    /\ tickFailed = {}
    /\ removedOK = {}
    /\ closeDone = 0
    /\ pollFrequency = defaultPollFrequency
    /\ tickerPeriod = defaultPollFrequency
    /\ nTicks = 0
    /\ nCalls = 0

\* A watcher has been constructed; no String call is under way.
Init ==
    /\ NewWatcher
    /\ sev = NoEvent
    /\ str = NoString

Alive == fatal = "none"
Iterating == tpc # "wait"

\* -------------------------------------------------------------- environment

\* The ticker of line 155 fires: a tick is queued unless one is waiting.
TickerFire ==
    /\ Alive
    /\ stops = 0
    /\ ~tickBuffered
    /\ nTicks < MaxTicks
    /\ tickBuffered' = TRUE
    /\ nTicks' = nTicks + 1
    /\ UNCHANGED <<watches, mutex, taskVars, callVars, chanVars, fatal,
                   ghostVars, nCalls, confVars, strVars>>

\* ------------------------------------------------- the goroutine of start()

\* Line 158: receive a tick; line 159: begin the range over w.watches.
TaskWait ==
    /\ Alive
    /\ tpc = "wait"
    /\ tickBuffered
    /\ tickBuffered' = FALSE
    /\ tpc' = "next"
    /\ iterSeen' = {}
    /\ iterFresh' = {}
    /\ tickPresent' = DOMAIN watches
    /\ tickStored' = {}
    /\ tickFailed' = {}
    /\ emitted' = <<>>
    /\ errRecv' = 0
    /\ UNCHANGED <<watches, mutex, curWatch, n, err, todo, key, outq,
                   callVars, chanVars, fatal, removedOK, closeDone,
                   nTicks, nCalls, confVars, strVars>>

\* Line 159: the range produces the next entry (any entry not yet produced),
\* or ends; it may end while entries created during the range are unproduced.
TaskNext ==
    /\ Alive
    /\ tpc = "next"
    /\ \/ /\ \E p \in (DOMAIN watches) \ iterSeen :
               /\ curWatch' = watches[p]
               /\ iterSeen' = iterSeen \cup {p}
          /\ tpc' = "snap"
          /\ UNCHANGED <<iterFresh, tickPresent, tickStored, tickFailed>>
       \/ /\ ((DOMAIN watches) \ iterSeen) \subseteq iterFresh
          /\ tpc' = "wait"
          /\ curWatch' = NoWatch
          /\ iterSeen' = {}
          /\ iterFresh' = {}
          /\ tickPresent' = {}
          /\ tickStored' = {}
          /\ tickFailed' = {}
    /\ n' = EmptyMap
    /\ err' = FALSE
    /\ emitted' = <<>>
    /\ errRecv' = 0
    /\ UNCHANGED <<watches, mutex, tickBuffered, todo, key, outq, callVars,
                   chanVars, fatal, removedOK, closeDone, nTicks, nCalls,
                   confVars, strVars>>

\* Lines 160-163: n, err := directoryMap(curWatch.path), on whatever the
\* filesystem holds under the path by now.
TaskSnap ==
    /\ Alive
    /\ tpc = "snap"
    /\ \E f \in Contents(curWatch.path) :
       LET r == directoryMap(f, curWatch.path) IN
         IF r.panic
         THEN /\ fatal' = "nilderef"
              /\ UNCHANGED <<tpc, n, err, todo, tickFailed>>
         ELSE /\ n' = r.m
              /\ err' = r.err
              /\ UNCHANGED fatal
              /\ IF r.err
                 THEN /\ tpc' = "sendErr"
                      /\ todo' = {}
                      /\ tickFailed' = tickFailed \cup {curWatch.path}
                 ELSE /\ tpc' = "scanNew"
                      /\ todo' = DOMAIN r.m
                      /\ UNCHANGED tickFailed
    /\ UNCHANGED <<watches, mutex, tickBuffered, iterSeen, iterFresh,
                   curWatch, key, outq, callVars, chanVars, emitted,
                   errRecv, tickPresent, tickStored, removedOK, closeDone,
                   nTicks, nCalls, confVars, strVars>>

\* Line 162: the consumer receives the error the goroutine is sending.
ReceiveError ==
    /\ Alive
    /\ tpc = "sendErr"
    /\ ~errorsClosed
    /\ tpc' = AfterSendErr
    /\ todo' = DOMAIN n
    /\ errRecv' = errRecv + 1
    /\ UNCHANGED <<watches, mutex, tickBuffered, iterSeen, iterFresh,
                   curWatch, n, err, key, outq, callVars, chanVars, fatal,
                   emitted, tickPresent, tickStored, tickFailed, removedOK,
                   closeDone, nTicks, nCalls, confVars, strVars>>

\* Keys of the range over n (lines 166-182) for which an event is sent.
NewKeysWithEvents(old, new, keys) ==
    {k \in keys : EventsForKey(old, new, k) # <<>>}

\* Keys of the range over curWatch.files (lines 185-191) for which an event
\* is sent.
OldKeysWithEvents(old, new, keys) ==
    {k \in keys : EventsForOldKey(old, new, k) # <<>>}

\* Lines 166-182: the range over n goes on to a key that has an event to
\* send (keys without one are passed over in the same step, as they touch
\* nothing shared), or it ends and the range of line 185 begins.
TaskScanNew ==
    /\ Alive
    /\ tpc = "scanNew"
    /\ IF NewKeysWithEvents(curWatch.files, n, todo) = {}
       THEN /\ tpc' = "scanOld"
            /\ todo' = DOMAIN curWatch.files
            /\ UNCHANGED <<key, outq>>
       ELSE \E k \in NewKeysWithEvents(curWatch.files, n, todo) :
              /\ todo' = todo \ {k}
              /\ tpc' = "sendNew"
              /\ key' = k
              /\ outq' = EventsForKey(curWatch.files, n, k)
    /\ UNCHANGED <<watches, mutex, tickBuffered, iterSeen, iterFresh,
                   curWatch, n, err, callVars, chanVars, fatal, ghostVars,
                   nTicks, nCalls, confVars, strVars>>

\* Lines 185-191: the range over curWatch.files, likewise; when it ends the
\* goroutine is at the Lock of line 193.
TaskScanOld ==
    /\ Alive
    /\ tpc = "scanOld"
    /\ IF OldKeysWithEvents(curWatch.files, n, todo) = {}
       THEN /\ tpc' = "lock"
            /\ todo' = {}
            /\ UNCHANGED <<key, outq>>
       ELSE \E k \in OldKeysWithEvents(curWatch.files, n, todo) :
              /\ todo' = todo \ {k}
              /\ tpc' = "sendOld"
              /\ key' = k
              /\ outq' = EventsForOldKey(curWatch.files, n, k)
    /\ UNCHANGED <<watches, mutex, tickBuffered, iterSeen, iterFresh,
                   curWatch, n, err, callVars, chanVars, fatal, ghostVars,
                   nTicks, nCalls, confVars, strVars>>

\* Mutant of ReceiveEvent: the send does not wait for the consumer, and the
\* event is dropped.
SendEventDropped ==
    /\ Alive
    /\ tpc \in {"sendNew", "sendOld"}
    /\ ~eventsClosed
    /\ outq' = Tail(outq)
    /\ IF Tail(outq) = <<>>
       THEN /\ tpc' = (IF tpc = "sendNew" THEN "scanNew" ELSE "scanOld")
            /\ key' = NoKey
       ELSE UNCHANGED <<tpc, key>>
    /\ UNCHANGED <<watches, mutex, tickBuffered, iterSeen, iterFresh,
                   curWatch, n, err, todo, callVars, chanVars, fatal,
                   ghostVars, nTicks, nCalls, confVars, strVars>>

\* Lines 171, 175, 179, 189: the consumer receives the event being sent.
ReceiveEvent ==
    /\ Alive
    /\ tpc \in {"sendNew", "sendOld"}
    /\ ~eventsClosed
    /\ emitted' = Append(emitted, [key |-> key, ev |-> Head(outq)])
    /\ outq' = Tail(outq)
    /\ IF Tail(outq) = <<>>
       THEN /\ tpc' = (IF tpc = "sendNew" THEN "scanNew" ELSE "scanOld")
            /\ key' = NoKey
       ELSE UNCHANGED <<tpc, key>>
    /\ UNCHANGED <<watches, mutex, tickBuffered, iterSeen, iterFresh,
                   curWatch, n, err, todo, callVars, chanVars, fatal, errRecv,
                   tickPresent, tickStored, tickFailed, removedOK, closeDone,
                   nTicks, nCalls, confVars, strVars>>

\* A send on a closed channel panics and the process dies.
TaskSendPanic ==
    /\ Alive
    /\ \/ tpc = "sendErr" /\ errorsClosed
       \/ tpc \in {"sendNew", "sendOld"} /\ eventsClosed
    /\ fatal' = "sendclosed"
    /\ UNCHANGED <<watches, mutex, tickBuffered, taskVars, callVars,
                   chanVars, ghostVars, nTicks, nCalls, confVars, strVars>>

\* Line 193: w.watchesMutex.Lock().
TaskLock ==
    /\ Alive
    /\ tpc = "lock"
    /\ mutex = "free"
    /\ mutex' = "task"
    /\ tpc' = "store"
    /\ UNCHANGED <<watches, tickBuffered, iterSeen, iterFresh, curWatch, n,
                   err, todo, key, outq, callVars, chanVars, fatal, ghostVars,
                   nTicks, nCalls, confVars, strVars>>

\* Line 194: w.watches[curWatch.path] = watch{path: curWatch.path, files: n}.
TaskStore ==
    /\ Alive
    /\ tpc = "store"
    /\ watches' = MapPut(watches, curWatch.path,
                         [path |-> curWatch.path, files |-> n])
    /\ iterFresh' = IF curWatch.path \in DOMAIN watches
                    THEN iterFresh ELSE iterFresh \cup {curWatch.path}
    /\ tickStored' = IF err THEN tickStored
                     ELSE tickStored \cup {[path |-> curWatch.path,
                                             events |-> Len(emitted)]}
    /\ tpc' = "unlock"
    /\ UNCHANGED <<mutex, tickBuffered, iterSeen, curWatch, n, err, todo,
                   key, outq, callVars, chanVars, fatal, emitted, errRecv,
                   tickPresent, tickFailed, removedOK, closeDone, nTicks,
                   nCalls, confVars, strVars>>

\* Mutant of TaskUnlock: the goroutine goes on without releasing the mutex,
\* which it then holds across the next snapshot and the next sends.
TaskUnlockKept ==
    /\ Alive
    /\ tpc = "unlock"
    /\ tpc' = "next"
    /\ UNCHANGED <<watches, mutex, tickBuffered, iterSeen, iterFresh, curWatch,
                   n, err, todo, key, outq, callVars, chanVars, fatal,
                   ghostVars, nTicks, nCalls, confVars, strVars>>

\* Line 195: w.watchesMutex.Unlock(); back to the range of line 159.
TaskUnlock ==
    /\ Alive
    /\ tpc = "unlock"
    /\ mutex' = "free"
    /\ tpc' = "next"
    /\ UNCHANGED <<watches, tickBuffered, iterSeen, iterFresh, curWatch, n,
                   err, todo, key, outq, callVars, chanVars, fatal, ghostVars,
                   nTicks, nCalls, confVars, strVars>>

\* The loop of lines 158-197.
TaskLoop ==
    \/ TaskWait \/ TaskNext \/ TaskSnap \/ TaskScanNew \/ TaskScanOld
    \/ TaskLock \/ TaskStore \/ TaskUnlock

Task == TaskLoop \/ TaskSendPanic

Consumer == ReceiveError \/ ReceiveEvent


\* ------------------------------------------------------ caller goroutines

Callers == {"c1"}                  \* the caller goroutines of Spec

\* Mutant of AddPrecheck: the lookup in w.watches is left out.
AddPrecheckNoLookup(ws, path) ==
    IF path = "" THEN "errEmptyPath" ELSE "ok"

\* Lines 86-91 of Add: the checks made before the snapshot is taken.
AddPrecheck(ws, path) ==
    IF path = "" THEN "errEmptyPath"
    ELSE IF path \in DOMAIN ws THEN "errExists"
    ELSE "ok"

\* Lines 107-113 of Remove: what the call does with the map.
RemovePrecheck(ws, path) ==
    IF path = "" THEN "errEmptyRemove"
    ELSE IF path \in DOMAIN ws THEN "delete"
    ELSE "nil"

\* Mutant of CloseGuard: Close does not look at w.isRunning.
CloseGuardAlways(running) == TRUE

\* Line 121 of Close: whether the shutdown is performed.
CloseGuard(running) == running

Return(c, val) ==
    /\ cpc' = [cpc EXCEPT ![c] = "idle"]
    /\ carg' = [carg EXCEPT ![c] = ""]
    /\ cfiles' = [cfiles EXCEPT ![c] = EmptyMap]
    /\ cret' = [cret EXCEPT ![c] = val]

Goto(c, label) ==
    /\ cpc' = [cpc EXCEPT ![c] = label]
    /\ UNCHANGED <<carg, cfiles, cret>>

\* A caller goroutine calls the method that begins at the label.
Enter(c, label, p) ==
    /\ Alive
    /\ cpc[c] = "idle"
    /\ nCalls < MaxCalls
    /\ nCalls' = nCalls + 1
    /\ cpc' = [cpc EXCEPT ![c] = label]
    /\ carg' = [carg EXCEPT ![c] = p]
    /\ cret' = [cret EXCEPT ![c] = "none"]
    /\ UNCHANGED <<watches, mutex, tickBuffered, taskVars, cfiles, chanVars,
                   fatal, ghostVars, nTicks, confVars, strVars>>

\* A caller calls w.Add(p).
CallAdd(c) == \E p \in Paths : Enter(c, "add86", p)

\* A caller calls w.Remove(p).
CallRemove(c) == \E p \in Paths : Enter(c, "rm107", p)

\* A caller calls w.Close().
CallClose(c) == Enter(c, "cl121", "")

\* Mutant of TickerPeriodAfter: PollFrequency arms the ticker anew.
TickerPeriodReset(period, f) == f

\* Lines 79-82: what PollFrequency(f) does to the period of w.ticker, which
\* it does not touch.
TickerPeriodAfter(period, f) == period

\* Lines 79-82: a caller calls w.PollFrequency(f), which stores f and
\* returns nil.
PollFrequency(c) ==
    /\ Alive
    /\ cpc[c] = "idle"
    /\ nCalls < MaxCalls
    /\ nCalls' = nCalls + 1
    /\ \E f \in Durations :
         /\ pollFrequency' = f
         /\ tickerPeriod' = TickerPeriodAfter(tickerPeriod, f)
    /\ cret' = [cret EXCEPT ![c] = "nil"]
    /\ UNCHANGED <<watches, mutex, tickBuffered, taskVars, cpc, carg, cfiles,
                   chanVars, fatal, ghostVars, strVars, nTicks>>

\* Lines 86-91: the empty-path check and the unlocked lookup in w.watches.
AddCheck(c) ==
    /\ Alive
    /\ cpc[c] = "add86"
    /\ LET r == AddPrecheck(watches, carg[c]) IN
         IF r = "ok" THEN Goto(c, "add93") ELSE Return(c, r)
    /\ UNCHANGED <<watches, mutex, tickBuffered, taskVars, chanVars, fatal,
                   ghostVars, nTicks, nCalls, confVars, strVars>>

\* Lines 93-96: files, err := directoryMap(path), on whatever the filesystem
\* holds under the path at the time.
AddSnap(c) ==
    /\ Alive
    /\ cpc[c] = "add93"
    /\ \E f \in Contents(carg[c]) :
       LET r == directoryMap(f, carg[c]) IN
         IF r.panic
         THEN /\ fatal' = "nilderef"
              /\ UNCHANGED callVars
         ELSE IF r.err
         THEN /\ Return(c, "errFs")
              /\ UNCHANGED fatal
         ELSE /\ cpc' = [cpc EXCEPT ![c] = "add98"]
              /\ cfiles' = [cfiles EXCEPT ![c] = r.m]
              /\ UNCHANGED <<carg, cret, fatal>>
    /\ UNCHANGED <<watches, mutex, tickBuffered, taskVars, chanVars,
                   ghostVars, nTicks, nCalls, confVars, strVars>>

\* Line 98: w.watchesMutex.Lock().
AddLock(c) ==
    /\ Alive
    /\ cpc[c] = "add98"
    /\ mutex = "free"
    /\ mutex' = c
    /\ Goto(c, "add99")
    /\ UNCHANGED <<watches, tickBuffered, taskVars, chanVars, fatal,
                   ghostVars, nTicks, nCalls, confVars, strVars>>

\* Line 99: w.watches[path] = watch{path: path, files: files}.
AddStore(c) ==
    /\ Alive
    /\ cpc[c] = "add99"
    /\ watches' = MapPut(watches, carg[c],
                         [path |-> carg[c], files |-> cfiles[c]])
    /\ iterFresh' = IF Iterating /\ carg[c] \notin DOMAIN watches
                    THEN iterFresh \cup {carg[c]} ELSE iterFresh
    /\ removedOK' = removedOK \ {carg[c]}
    /\ Goto(c, "add100")
    /\ UNCHANGED <<mutex, tickBuffered, tpc, iterSeen, curWatch, n, err,
                   todo, key, outq, chanVars, fatal, emitted, errRecv,
                   tickPresent, tickStored, tickFailed, closeDone, nTicks,
                   nCalls, confVars, strVars>>

\* Lines 100-102: w.watchesMutex.Unlock(); return nil.
AddUnlock(c) ==
    /\ Alive
    /\ cpc[c] = "add100"
    /\ mutex' = "free"
    /\ Return(c, "nil")
    /\ UNCHANGED <<watches, tickBuffered, taskVars, chanVars, fatal,
                   ghostVars, nTicks, nCalls, confVars, strVars>>

\* Lines 107-111: the empty-path check and the unlocked lookup in w.watches.
RemoveCheck(c) ==
    /\ Alive
    /\ cpc[c] = "rm107"
    /\ LET r == RemovePrecheck(watches, carg[c]) IN
         /\ IF r = "delete" THEN Goto(c, "rm112") ELSE Return(c, r)
         /\ removedOK' = IF r = "nil" THEN removedOK \cup {carg[c]}
                         ELSE removedOK
    /\ UNCHANGED <<watches, mutex, tickBuffered, taskVars, chanVars, fatal,
                   emitted, errRecv, tickPresent, tickStored, tickFailed,
                   closeDone, nTicks, nCalls, confVars, strVars>>

\* Lines 112-115: delete(w.watches, path), without the mutex; return nil.
RemoveDelete(c) ==
    /\ Alive
    /\ cpc[c] = "rm112"
    /\ watches' = MapDelete(watches, carg[c])
    /\ iterSeen' = iterSeen \ {carg[c]}
    /\ iterFresh' = iterFresh \ {carg[c]}
    /\ tickPresent' = tickPresent \ {carg[c]}
    /\ removedOK' = removedOK \cup {carg[c]}
    /\ Return(c, "nil")
    /\ UNCHANGED <<mutex, tickBuffered, tpc, curWatch, n, err, todo, key,
                   outq, chanVars, fatal, emitted, errRecv, tickStored,
                   tickFailed, closeDone, nTicks, nCalls, confVars, strVars>>

\* Line 121: if w.isRunning.
CloseCheck(c) ==
    /\ Alive
    /\ cpc[c] = "cl121"
    /\ IF CloseGuard(isRunning)
       THEN /\ Goto(c, "cl122")
            /\ UNCHANGED closeDone
       ELSE /\ Return(c, "void")
            /\ closeDone' = closeDone + 1
    /\ UNCHANGED <<watches, mutex, tickBuffered, taskVars, chanVars, fatal,
                   emitted, errRecv, tickPresent, tickStored, tickFailed,
                   removedOK, nTicks, nCalls, confVars, strVars>>

\* Line 122: w.ticker.Stop().
CloseStop(c) ==
    /\ Alive
    /\ cpc[c] = "cl122"
    /\ stops' = stops + 1
    /\ Goto(c, "cl123")
    /\ UNCHANGED <<watches, mutex, tickBuffered, taskVars, isRunning,
                   eventsClosed, errorsClosed, fatal, ghostVars,
                   nTicks, nCalls, confVars, strVars>>

\* Line 123: w.isRunning = false.
CloseFlag(c) ==
    /\ Alive
    /\ cpc[c] = "cl123"
    /\ isRunning' = FALSE
    /\ Goto(c, "cl124")
    /\ UNCHANGED <<watches, mutex, tickBuffered, taskVars, stops,
                   eventsClosed, errorsClosed, fatal, ghostVars,
                   nTicks, nCalls, confVars, strVars>>

\* Line 124: close(w.Events); closing a closed channel panics.
CloseEvents(c) ==
    /\ Alive
    /\ cpc[c] = "cl124"
    /\ IF eventsClosed
       THEN /\ fatal' = "closeclosed"
            /\ UNCHANGED <<eventsClosed, callVars>>
       ELSE /\ eventsClosed' = TRUE
            /\ Goto(c, "cl125")
            /\ UNCHANGED fatal
    /\ UNCHANGED <<watches, mutex, tickBuffered, taskVars, isRunning, stops,
                   errorsClosed, ghostVars, nTicks, nCalls,
                   confVars, strVars>>

\* Lines 125-127: close(w.Errors); return.
CloseErrors(c) ==
    /\ Alive
    /\ cpc[c] = "cl125"
    /\ IF errorsClosed
       THEN /\ fatal' = "closeclosed"
            /\ UNCHANGED <<errorsClosed, callVars, closeDone>>
       ELSE /\ errorsClosed' = TRUE
            /\ Return(c, "void")
            /\ closeDone' = closeDone + 1
            /\ UNCHANGED fatal
    /\ UNCHANGED <<watches, mutex, tickBuffered, taskVars, isRunning, stops,
                   eventsClosed, emitted, errRecv, tickPresent, tickStored,
                   tickFailed, removedOK, nTicks, nCalls, confVars, strVars>>

\* ---------------------------------------------- unsynchronised map accesses

\* The access to w.watches a caller is about to make: lines 89, 99, 111, 112.
CallerAccess(c) ==
    CASE cpc[c] = "add86" /\ carg[c] # "" -> "read"
      [] cpc[c] = "add99" -> "write"
      [] cpc[c] = "rm107" /\ carg[c] # "" -> "read"
      [] cpc[c] = "rm112" -> "write"
      [] OTHER -> "none"

\* The access to w.watches the goroutine is about to make: lines 159, 194.
TaskAccess ==
    CASE tpc = "next" -> "read"
      [] tpc = "store" -> "write"
      [] OTHER -> "none"

Conflict(x, y) == x # "none" /\ y # "none" /\ "write" \in {x, y}

\* Two goroutines are in w.watches at once, one of them writing: the runtime
\* may detect it and abort ("fatal error: concurrent map ...").
RaceCrash(c) ==
    /\ Alive
    /\ \/ Conflict(CallerAccess(c), TaskAccess)
       \/ \E d \in Threads \ {c} : Conflict(CallerAccess(c), CallerAccess(d))
    /\ fatal' = "race"
    /\ UNCHANGED <<watches, mutex, tickBuffered, taskVars, callVars,
                   chanVars, ghostVars, nTicks, nCalls, confVars, strVars>>

\* The steps of Add and Remove, and the abort they may run into.
Registration(c) ==
    \/ CallAdd(c) \/ CallRemove(c)
    \/ AddCheck(c) \/ AddSnap(c) \/ AddLock(c) \/ AddStore(c) \/ AddUnlock(c)
    \/ RemoveCheck(c) \/ RemoveDelete(c)
    \/ RaceCrash(c)

\* The steps of Close.
Shutdown(c) ==
    \/ CallClose(c)
    \/ CloseCheck(c) \/ CloseStop(c) \/ CloseFlag(c) \/ CloseEvents(c)
    \/ CloseErrors(c)

Caller(c) == Registration(c) \/ Shutdown(c) \/ PollFrequency(c)

\* ------------------------------------------------------------ specification

Next ==
    \/ TickerFire
    \/ Task
    \/ Consumer
    \/ \E c \in Callers : Caller(c)

Spec == Init /\ [][Next]_vars

\* Close is never called, and the consumer keeps receiving on both channels.
NextNoClose ==
    \/ TickerFire
    \/ TaskLoop
    \/ Consumer
    \/ \E c \in Callers : Registration(c) \/ PollFrequency(c)

LiveSpec == Init /\ [][NextNoClose]_vars /\ WF_vars(Consumer)

\* No consumer receives: the goroutine stays blocked on its first send, while
\* the goroutines that are able to run do run.
NextStall ==
    \/ TickerFire
    \/ TaskLoop
    \/ \E c \in Callers : Registration(c)

StallSpec ==
    /\ Init /\ [][NextStall]_vars
    /\ WF_vars(TaskLoop)
    /\ \A c \in Callers : WF_vars(Registration(c))

\* Two caller goroutines call the methods concurrently.
NextConc ==
    \/ TickerFire
    \/ Task
    \/ Consumer
    \/ \E c \in Threads : Caller(c)

ConcSpec == Init /\ [][NextConc]_vars

\* Lines 129-153: e.String() is called on the event sev and returns.
EventString ==
    /\ str = NoString
    /\ str' = String(sev)
    /\ UNCHANGED <<watches, mutex, tickBuffered, taskVars, callVars, chanVars,
                   fatal, ghostVars, confVars, sev, nTicks, nCalls>>

\* String is about to be called on any event.
StringInit ==
    /\ NewWatcher
    /\ sev \in AllEvents
    /\ str = NoString

StringSpec == StringInit /\ [][EventString]_vars


\* ------------------------------------------------------------------ claims

\* The events received so far for key k of the target being processed.
EventsOf(k) ==
    LET sel == SelectSeq(emitted, LAMBDA x : x.key = k)
    IN  [i \in 1..Len(sel) |-> sel[i].ev]

\* How often event e occurs in the sequence evs.
Count(evs, e) == Cardinality({i \in 1..Len(evs) : evs[i] = e})

\* What the diff of section 4.3 derives from old and new, with its key.
DiffEvents(old, new) ==
    {[key |-> k, ev |-> [Name |-> new[k].path, Op |-> Create]] :
        k \in (DOMAIN new) \ (DOMAIN old)}
    \cup
    {[key |-> k, ev |-> [Name |-> new[k].path, Op |-> Write]] :
        k \in {x \in (DOMAIN new) \cap (DOMAIN old) :
                 old[x].modTime # new[x].modTime}}
    \cup
    {[key |-> k, ev |-> [Name |-> new[k].path, Op |-> Chmod]] :
        k \in {x \in (DOMAIN new) \cap (DOMAIN old) :
                 old[x].mode # new[x].mode}}
    \cup
    {[key |-> k, ev |-> [Name |-> old[k].path, Op |-> Remove]] :
        k \in (DOMAIN old) \ (DOMAIN new)}

\* The events received for the target are those of the diff, each once.
AllDelivered ==
    /\ Len(emitted) = Cardinality(DiffEvents(curWatch.files, n))
    /\ \A x \in DiffEvents(curWatch.files, n) :
         Cardinality({i \in 1..Len(emitted) : emitted[i] = x}) = 1

Blocked == tpc \in {"sendErr", "sendNew", "sendOld"}

\* C1: when the re-snapshot of a target failed, the goroutine's store for
\* that target leaves w.watches as it was, so the stored snapshot is the one
\* stored before the tick.
C1_FailedSnapshotKeepsBaseline ==
    [][(tpc = "store" /\ err /\ tpc' = "unlock") => watches' = watches]_vars

\* C2: when the re-snapshot of a target failed, nothing but the error is sent
\* for that target in that tick: no event is sent or being sent.
C2_FailedSnapshotSendsNoEvent ==
    err => (emitted = <<>> /\ outq = <<>>)

\* C3: a path whose Remove returned nil is absent from w.watches until an Add
\* of that path inserts it again.
C3_RemovedStaysAbsent ==
    removedOK \cap (DOMAIN watches) = {}

\* C4: the goroutine never performs a send on a channel that Close has
\* closed.
C4_NoSendAfterClose ==
    fatal # "sendclosed"

\* C5: Close calls made one after the other stop the ticker once and close
\* each channel once (a second close would panic); once a Close has returned
\* the watcher is stopped with both channels closed.
C5_CloseIdempotent ==
    /\ fatal # "closeclosed"
    /\ stops <= 1
    /\ closeDone >= 1 =>
         (~isRunning /\ stops = 1 /\ eventsClosed /\ errorsClosed)

\* C5 witness: two Close calls have returned.
C5_Witness ==
    closeDone = 2 /\ Alive

\* The snapshot that section 4.1 asks of the tree f under root: one entry per
\* base name, that of the entry walked last.
IsSnapshotOf(m, f, root) ==
    LET order == WalkOrder(root)
        live == {i \in 1..Len(order) : Exists(f, order[i])}
        last(k) == CHOOSE i \in live :
                     /\ Name(order[i]) = k
                     /\ \A j \in live : Name(order[j]) = k => j <= i
    IN  /\ DOMAIN m = {Name(order[i]) : i \in live}
        /\ \A k \in DOMAIN m :
             m[k] = [path |-> order[last(k)],
                     modTime |-> f[order[last(k)]].modTime,
                     mode |-> f[order[last(k)]].mode]

\* C6: Add("") returns the empty-path error, Add of a watched path returns
\* the already-watched error and Add of a path that does not exist returns
\* the filesystem error, each leaving w.watches as it was; otherwise Add
\* inserts the path with the snapshot of an existing tree taken in the call.
C6_AddContract ==
    [][\A c \in Callers :
        /\ (cpc[c] = "add86" /\ cpc'[c] # "add86") =>
             /\ watches' = watches
             /\ carg[c] = "" =>
                  (cpc'[c] = "idle" /\ cret'[c] = "errEmptyPath")
             /\ (carg[c] # "" /\ carg[c] \in DOMAIN watches) =>
                  (cpc'[c] = "idle" /\ cret'[c] = "errExists")
             /\ (carg[c] # "" /\ carg[c] \notin DOMAIN watches) =>
                  cpc'[c] = "add93"
        /\ (cpc[c] = "add93" /\ cpc'[c] # "add93") =>
             /\ watches' = watches
             /\ \/ cpc'[c] = "idle" /\ cret'[c] = "errFs"
                \/ /\ cpc'[c] = "add98"
                   /\ \E f \in Contents(carg[c]) :
                        /\ Exists(f, carg[c])
                        /\ IsSnapshotOf(cfiles'[c], f, carg[c])
        /\ (cpc[c] = "add99" /\ cpc'[c] # "add99") =>
             watches' = [p \in (DOMAIN watches) \cup {carg[c]} |->
                           IF p = carg[c]
                           THEN [path |-> carg[c], files |-> cfiles[c]]
                           ELSE watches[p]]
        /\ (cpc[c] = "add100" /\ cpc'[c] # "add100") =>
             (watches' = watches /\ cret'[c] = "nil")
    ]_vars

\* C6 witness: an Add of a watched path has returned the already-watched
\* error, after an Add that inserted the path.
C6_Witness ==
    \E c \in Callers : cret[c] = "errExists" /\ DOMAIN watches # {}

\* C7: with Close never called and the consumer receiving, every send the
\* goroutine blocks on is received while the process lives, and by the time
\* a target's events are all sent the consumer has received each event of
\* its diff once and its error, if any, once.
C7_DeliveredOnce ==
    /\ [](tpc = "lock" =>
            (AllDelivered /\ errRecv = (IF err THEN 1 ELSE 0)))
    /\ (Blocked ~> (~Blocked \/ ~Alive))

\* C7 witness: all events of a target with two or more events are received.
C7_Witness ==
    tpc = "lock" /\ Len(emitted) >= 2 /\ Alive

\* The range of line 159 has nothing left to produce: the tick is over.
TickOver ==
    tpc = "next" /\ (DOMAIN watches) \ iterSeen = {}

\* C8: when a tick in which some re-snapshot failed is over (the range has
\* nothing left, or the goroutine is back at line 158), every target that was
\* in w.watches throughout the tick and whose re-snapshot succeeded was
\* stored in that tick; a target is stored after the events of its diff were
\* received, and the store puts its new snapshot into w.watches.
C8_OtherTargetsUnaffected ==
    /\ ((TickOver \/ tpc = "wait") /\ tickFailed # {}) =>
         \A p \in tickPresent \ tickFailed : \E x \in tickStored : x.path = p
    /\ (tpc = "store" /\ ~err) => AllDelivered
    /\ (tpc = "unlock" /\ ~err /\ curWatch.path \in tickPresent) =>
         watches[curWatch.path] = [path |-> curWatch.path, files |-> n]

\* C8 witness: a tick has ended in which one re-snapshot failed and another
\* target, present throughout, was stored after events of its own.
C8_Witness ==
    /\ TickOver
    /\ tickFailed # {}
    /\ \E x \in tickStored :
         x.events > 0 /\ x.path \in tickPresent /\ x.path \notin tickFailed

\* C9: when the events of a target with a successful re-snapshot are all
\* sent, each name in the new snapshot only has had one event, a Create with
\* the new entry's path, and each name in the old snapshot only has had one
\* event, a Remove with the old entry's path.
C9_CreateAndRemoveOnce ==
    (tpc = "lock" /\ ~err) =>
      /\ \A k \in (DOMAIN n) \ (DOMAIN curWatch.files) :
           EventsOf(k) = <<[Name |-> n[k].path, Op |-> Create]>>
      /\ \A k \in (DOMAIN curWatch.files) \ (DOMAIN n) :
           EventsOf(k) = <<[Name |-> curWatch.files[k].path, Op |-> Remove]>>

\* C9 witness: a diff with a created name and a removed name is complete.
C9_Witness ==
    /\ tpc = "lock" /\ ~err
    /\ (DOMAIN n) \ (DOMAIN curWatch.files) # {}
    /\ (DOMAIN curWatch.files) \ (DOMAIN n) # {}

\* C10: when the events of a target with a successful re-snapshot are all
\* sent, a name in both snapshots has had one Write event exactly if its
\* modification time differs, one Chmod event exactly if its mode differs,
\* and no other event: two events when both differ.
C10_WriteAndChmodSeparate ==
    (tpc = "lock" /\ ~err) =>
      \A k \in (DOMAIN n) \cap (DOMAIN curWatch.files) :
        LET evs == EventsOf(k)
            w == IF curWatch.files[k].modTime # n[k].modTime THEN 1 ELSE 0
            c == IF curWatch.files[k].mode # n[k].mode THEN 1 ELSE 0
        IN  /\ Count(evs, [Name |-> n[k].path, Op |-> Write]) = w
            /\ Count(evs, [Name |-> n[k].path, Op |-> Chmod]) = c
            /\ Len(evs) = w + c

\* C10 witness: a name whose modification time and mode both differ has had
\* its two events.
C10_Witness ==
    /\ tpc = "lock" /\ ~err
    /\ \E k \in (DOMAIN n) \cap (DOMAIN curWatch.files) :
         /\ curWatch.files[k].modTime # n[k].modTime
         /\ curWatch.files[k].mode # n[k].mode
         /\ Len(EventsOf(k)) = 2

\* The goroutine is past the re-snapshot of the target it is processing.
PastSnap ==
    tpc \in {"scanNew", "sendNew", "scanOld", "sendOld", "lock", "store",
             "unlock"}

\* C11: when the re-snapshot of a target succeeded and equals the snapshot
\* the tick took from w.watches, no event and no error is sent or received
\* for the target, and the store of line 194 leaves w.watches, which still
\* holds that snapshot, as it was: the next tick starts from the same state.
C11_NoOpTick ==
    /\ []((PastSnap /\ ~err /\ n = curWatch.files) =>
            (emitted = <<>> /\ outq = <<>> /\ errRecv = 0))
    /\ [][(/\ tpc = "store" /\ tpc' = "unlock"
           /\ ~err /\ n = curWatch.files
           /\ curWatch.path \in DOMAIN watches
           /\ watches[curWatch.path] = curWatch) => watches' = watches]_vars

\* C11 witness: the second tick has stored a snapshot equal to the stored
\* one, with nothing sent.
C11_Witness ==
    /\ tpc = "unlock" /\ ~err /\ Alive
    /\ nTicks = 2
    /\ n = curWatch.files
    /\ curWatch.path \in DOMAIN watches
    /\ watches[curWatch.path] = curWatch
    /\ emitted = <<>>

\* The flags an event may carry.
SentFlags == {Create, Write, Chmod, Remove}

\* C12: every event received or being sent carries one flag out of Create,
\* Write, Chmod and Remove, never Rename; when a name is gone and another
\* has come (a rename), the events of the two names are one Remove with the
\* old path and one Create with the new path.
C12_OneFlagNoRename ==
    /\ \A i \in 1..Len(emitted) : emitted[i].ev.Op \in SentFlags
    /\ \A i \in 1..Len(outq) : outq[i].Op \in SentFlags
    /\ (tpc = "lock" /\ ~err) =>
         \A k \in (DOMAIN curWatch.files) \ (DOMAIN n) :
           \A k2 \in (DOMAIN n) \ (DOMAIN curWatch.files) :
             /\ EventsOf(k) = <<Event(curWatch.files[k].path, Remove)>>
             /\ EventsOf(k2) = <<Event(n[k2].path, Create)>>

\* C12 witness: "a/f" was renamed to "a/g" between two snapshots and the
\* two events of the target are received.
C12_Witness ==
    /\ tpc = "lock" /\ ~err /\ Alive
    /\ "f" \in (DOMAIN curWatch.files) \ (DOMAIN n)
    /\ "g" \in (DOMAIN n) \ (DOMAIN curWatch.files)
    /\ curWatch.files["f"].modTime = n["g"].modTime
    /\ curWatch.files["f"].mode = n["g"].mode
    /\ Len(emitted) = 2

\* A step of PollFrequency: a call is counted and no caller enters a method.
PollFrequencyStep == nCalls' # nCalls /\ cpc' = cpc

\* C13: a PollFrequency call stores its argument in w.pollFrequency and
\* returns nil, leaving the ticker's period, w.isRunning, w.watches and both
\* channels as they were; the ticker keeps the period it was armed with in
\* NewWatcher, the default of 250 ms.
C13_PollFrequencyFrame ==
    /\ [](tickerPeriod = 250)
    /\ [][PollFrequencyStep =>
            /\ pollFrequency' \in Durations
            /\ \E c \in Callers :
                 cret' = [cret EXCEPT ![c] = "nil"]
            /\ UNCHANGED <<tickerPeriod, watches, mutex, tickBuffered,
                           taskVars, chanVars, fatal>>]_vars

\* C13 witness: after a PollFrequency call with another interval the ticker
\* has fired and the goroutine is processing the tick.
C13_Witness ==
    /\ pollFrequency # defaultPollFrequency
    /\ tickerPeriod = defaultPollFrequency
    /\ nCalls = 1 /\ nTicks = 1 /\ tpc = "next" /\ Alive

\* C14: a walk that meets an entry whose metadata cannot be read does not
\* crash: no directoryMap call ends in the panic of its walk function.
C14_WalkErrorsSwallowed ==
    fatal # "nilderef"

\* The flags in the order in which String names them, with their names.
FlagOrder ==
    << [flag |-> Create, name |-> <<"C", "R", "E", "A", "T", "E">>],
       [flag |-> Remove, name |-> <<"R", "E", "M", "O", "V", "E">>],
       [flag |-> Write, name |-> <<"W", "R", "I", "T", "E">>],
       [flag |-> Rename, name |-> <<"R", "E", "N", "A", "M", "E">>],
       [flag |-> Chmod, name |-> <<"C", "H", "M", "O", "D">>] >>

RECURSIVE SumOf(_)
SumOf(S) == IF S = {} THEN 0
            ELSE LET x == CHOOSE y \in S : TRUE IN x + SumOf(S \ {x})

\* The set of flags whose sum is op.
FlagsOf(op) ==
    CHOOSE S \in SUBSET {Create, Write, Remove, Rename, Chmod} : SumOf(S) = op

\* The items of the sequence names joined by "|".
RECURSIVE JoinNames(_, _)
JoinNames(names, i) ==
    IF i > Len(names) THEN <<>>
    ELSE names[i].name
         \o (IF i < Len(names) THEN <<"|">> ELSE <<>>)
         \o JoinNames(names, i + 1)

\* The string form the claim describes.
CanonicalString(ev) ==
    <<[quoted |-> ev.Name], ":", " ">>
    \o JoinNames(SelectSeq(FlagOrder, LAMBDA x : x.flag \in FlagsOf(ev.Op)), 1)

\* C15: for every path and every set of the five flags, String returns the
\* quoted path, ": ", and the names of the flags that are set in the order
\* CREATE, REMOVE, WRITE, RENAME, CHMOD, joined by "|" with no "|" at either
\* end.
C15_StringForm ==
    str # NoString => str = CanonicalString(sev)

\* C15 witness: String has returned for an event with all five flags.
C15_Witness ==
    str # NoString /\ sev.Op = Create + Write + Remove + Rename + Chmod

\* C16: no two goroutines, the goroutine of start() and a caller or two
\* callers, are about to access w.watches at the same time with one of them
\* writing.
C16_NoConcurrentAccess ==
    /\ \A c \in Threads : ~Conflict(CallerAccess(c), TaskAccess)
    /\ \A c \in Threads : \A d \in Threads \ {c} :
         ~Conflict(CallerAccess(c), CallerAccess(d))

\* A caller is in Add past the snapshot: it will insert its path and return
\* nil.
AddSucceeding(c) == cpc[c] \in {"add98", "add99", "add100"}

\* C20: of two concurrent Add calls for the same path at most one gets past
\* the already-watched check to insert the path and return nil, and no
\* channel is closed a second time by concurrent Close calls.
C20_ConcurrentCallersSafe ==
    /\ \A c \in Threads : \A d \in Threads \ {c} :
         ~(AddSucceeding(c) /\ AddSucceeding(d) /\ carg[c] = carg[d])
    /\ fatal # "closeclosed"

\* C17: every snapshot stored in w.watches is the complete snapshot of a
\* tree that exists under its path.
C17_StoredSnapshotComplete ==
    \A p \in DOMAIN watches :
      \E f \in Contents(p) :
        Exists(f, p) /\ IsSnapshotOf(watches[p].files, f, p)

\* A Remove event has been received for the target being processed.
RemoveReceived == \E i \in 1..Len(emitted) : emitted[i].ev.Op = Remove

\* C18: the events of a target are received one at a time; once a Remove
\* event of the target is received no Create, Write or Chmod event of the
\* target is received or waits to be sent; and when the goroutine stores the
\* new snapshot every event of the target's diff has been received.
C18_AddsBeforeRemoves ==
    /\ [](\A i \in 1..Len(emitted) : \A j \in 1..Len(emitted) :
            (i < j /\ emitted[i].ev.Op = Remove) => emitted[j].ev.Op = Remove)
    /\ [](RemoveReceived => \A i \in 1..Len(outq) : outq[i].Op = Remove)
    /\ [](tpc \in {"store", "unlock"} => (outq = <<>> /\ AllDelivered))
    /\ [][Len(emitted') <= Len(emitted) + 1]_vars

\* C18 witness: the goroutine is at the store after a Create event followed
\* by a Remove event of the same target.
C18_Witness ==
    /\ tpc = "store" /\ Alive
    /\ Len(emitted) >= 2
    /\ emitted[1].ev.Op = Create
    /\ emitted[Len(emitted)].ev.Op = Remove

\* A caller is inside a call of Add or Remove.
InCall(c) == cpc[c] # "idle"

\* C19: the goroutine holds the mutex only at lines 194-195 and a caller only
\* at lines 99-100, never at a send or a snapshot; with no consumer at all,
\* every call of Add or Remove returns while the process lives.
C19_RegistrationCompletes ==
    /\ [](mutex = "task" => tpc \in {"store", "unlock"})
    /\ [](\A c \in Callers : mutex = c => cpc[c] \in {"add99", "add100"})
    /\ \A c \in Callers : (InCall(c) ~> (~InCall(c) \/ ~Alive))

\* C19 witness: an Add has taken the mutex and stored its target while the
\* goroutine is blocked on a send that nobody receives.
C19_Witness ==
    Blocked /\ Alive /\ \E c \in Callers : cpc[c] = "add100"

====
